---- MODULE Spec2Model ----
(***************************************************************************)
(* git-fix-eof-newline: detection and repair of a trailing newline added   *)
(* at end of file, in the working tree / index (--n 0), in the most recent *)
(* commit (--n 1), in a range of recent commits (--n >1, through           *)
(* git filter-branch) and in the per-commit tree filter                    *)
(* (--in-filter-branch).                                                   *)
(*                                                                         *)
(* A blob is modelled as `pad` filler bytes 'a' followed by the explicit   *)
(* byte sequence `tail`; the code only ever looks at the last two bytes of *)
(* a blob and at its size, so the filler carries the size and the tail the *)
(* bytes that decide.  The history is the first-parent lineage of HEAD,    *)
(* oldest commit first.                                                    *)
(***************************************************************************)
EXTENDS Integers, Sequences, FiniteSets, TLC

VARIABLES
    commits,    \* first-parent lineage, root first, HEAD last
    index,      \* staging area: path -> blob or Absent
    worktree,   \* working tree files: path -> blob or Absent
    rebasing,   \* rebase-apply / rebase-merge exists under the git dir
    hist        \* the runs of the tool so far, each with the state before it

vars == <<commits, index, worktree, rebasing, hist>>

-----------------------------------------------------------------------------
(* Bounds of the model *)

MaxCommits == 3
MaxRuns == 2

-----------------------------------------------------------------------------
(* Bytes and blobs *)

LF == 10
CR == 13
OtherByte == 97
BlobCeiling == 10000000

Paths == {"e", "f", "g"}
\* BTreeSet<PathBuf> order, and the order of git's tree entries
PathOrder == <<"e", "f", "g">>

Blob(pad, tail) == [pad |-> pad, tail |-> tail]
Absent == [pad |-> 0 - 1, tail |-> <<>>]
Txt(tail) == Blob(0, tail)

BlobSize(b) == b.pad + Len(b.tail)

-----------------------------------------------------------------------------
(* src/lib.rs on byte sequences *)

EndsWith(bytes, suffix) ==
    /\ Len(bytes) >= Len(suffix)
    /\ SubSeq(bytes, Len(bytes) - Len(suffix) + 1, Len(bytes)) = suffix

ends_with_newline(bytes) == EndsWith(bytes, <<LF>>)

\* strip_one_trailing_newline: the bytes left, and the bool returned
strip_cut_lf_only(bytes) ==
    IF EndsWith(bytes, <<LF>>)
    THEN [bytes |-> SubSeq(bytes, 1, Len(bytes) - 1), changed |-> TRUE]
    ELSE [bytes |-> bytes, changed |-> FALSE]

strip_one_trailing_newline(bytes) ==
    IF EndsWith(bytes, <<CR, LF>>)
    THEN [bytes |-> SubSeq(bytes, 1, Len(bytes) - 2), changed |-> TRUE]
    ELSE IF EndsWith(bytes, <<LF>>)
    THEN [bytes |-> SubSeq(bytes, 1, Len(bytes) - 1), changed |-> TRUE]
    ELSE [bytes |-> bytes, changed |-> FALSE]

\* the predicate looking at the new bytes only
added_eof_newline_ignores_old(old_bytes, new_bytes) == ends_with_newline(new_bytes)

added_eof_newline(old_bytes, new_bytes) ==
    ~ends_with_newline(old_bytes) /\ ends_with_newline(new_bytes)

\* The same on blobs: the filler bytes are neither CR nor LF, so the last
\* two bytes of a blob are decided by its tail alone unless the tail is
\* shorter, and then the byte before it is no CR.
BlobEndsNl(b) == ends_with_newline(b.tail)
BlobStrip(b) == Blob(b.pad, strip_one_trailing_newline(b.tail).bytes)
BlobAdded(old, new) == added_eof_newline(old.tail, new.tail)

-----------------------------------------------------------------------------
(* Command line (struct Args) and author identities *)

None == [some |-> FALSE, v |-> <<>>]
Some(v) == [some |-> TRUE, v |-> v]

to_lowercase_char(c) ==
    CASE c = "A" -> "a"
      [] c = "B" -> "b"
      [] c = "L" -> "l"
      [] OTHER -> c

to_lowercase(s) == [i \in 1..Len(s) |-> to_lowercase_char(s[i])]

\* str::contains: needle occurs as a contiguous substring
contains(hay, needle) ==
    \E i \in 0..(Len(hay) - Len(needle)) :
        SubSeq(hay, i + 1, i + Len(needle)) = needle

Alice == [name |-> <<"A", "l">>, email |-> <<"a", "l", "@", "x">>]
Bob == [name |-> <<"B", "o">>, email |-> <<"b", "o", "@", "x">>]

-----------------------------------------------------------------------------
(* Repository accessors *)

HeadTree(cs) == cs[Len(cs)].tree

\* rev_parse_oid("<commit>:<path>") succeeds iff the path is in the tree
rev_parse_oid_ok(tree, path) == tree[path] # Absent

\* blob_bytes_limited succeeds iff the blob is at most 10,000,000 bytes
blob_bytes_limited_ok_off_by_one(b) == BlobSize(b) < BlobCeiling

blob_bytes_limited_ok(b) == BlobSize(b) <= BlobCeiling

\* the author filter ignoring --author-email
author_filter_name_only(c, args) ==
    \/ ~args.author_name.some
    \/ contains(to_lowercase(c.author.name), to_lowercase(args.author_name.v))

\* the author filter comparing case-sensitively
author_filter_case_sensitive(c, args) ==
    /\ args.author_name.some => contains(c.author.name, args.author_name.v)
    /\ args.author_email.some => contains(c.author.email, args.author_email.v)

commit_matches_author_filter(c, args) ==
    IF ~args.author_name.some /\ ~args.author_email.some THEN TRUE
    ELSE IF args.author_name.some
            /\ ~contains(to_lowercase(c.author.name), to_lowercase(args.author_name.v))
    THEN FALSE
    ELSE IF args.author_email.some
            /\ ~contains(to_lowercase(c.author.email), to_lowercase(args.author_email.v))
    THEN FALSE
    ELSE TRUE

\* git rev-list --parents -n 1: the number of parents of commit i of the
\* lineage (the root has none, a merge has two)
NumParents(cs, i) == IF i = 1 THEN 0 ELSE IF cs[i].merge THEN 2 ELSE 1

\* first_parent_of_commit: "ok" with the parent's position, or the error
first_parent_of_commit(cs, i) ==
    IF NumParents(cs, i) < 1 THEN [ok |-> FALSE, parent |-> 0]
    ELSE IF NumParents(cs, i) > 1 THEN [ok |-> FALSE, parent |-> 0]
    ELSE [ok |-> TRUE, parent |-> i - 1]

\* head_and_first_parent: only a missing parent is an error
head_and_first_parent(cs) ==
    IF NumParents(cs, Len(cs)) < 1 THEN [ok |-> FALSE, parent |-> 0]
    ELSE [ok |-> TRUE, parent |-> Len(cs) - 1]

\* changed_paths_in_commit: git diff-tree --name-status -r shows nothing
\* for a root commit (no --root) nor for a merge (no -m / -c); otherwise
\* the paths of status M are those in both trees with different blobs
changed_paths_in_commit(cs, i) ==
    IF NumParents(cs, i) # 1 THEN {}
    ELSE {p \in Paths :
            /\ cs[i].tree[p] # Absent
            /\ cs[i - 1].tree[p] # Absent
            /\ cs[i].tree[p] # cs[i - 1].tree[p]}

\* ensure_clean_worktree: git status --porcelain prints nothing
ensure_clean_worktree_ok(cs, idx, wt) == idx = HeadTree(cs) /\ wt = idx

\* strip_worktree_file: unreadable file is an error, otherwise the file is
\* rewritten when a terminator was removed
strip_worktree_file(wt, path) ==
    IF wt[path] = Absent THEN [ok |-> FALSE, worktree |-> wt]
    ELSE [ok |-> TRUE, worktree |-> [wt EXCEPT ![path] = BlobStrip(wt[path])]]

\* git add -- <path>
git_add_path(idx, wt, path) == [idx EXCEPT ![path] = wt[path]]

-----------------------------------------------------------------------------
(* --n 0: working tree and index against HEAD *)

\* git diff --name-only: index entries whose file differs or is missing
UnstagedSet(idx, wt) == {p \in Paths : idx[p] # Absent /\ wt[p] # idx[p]}

\* git diff --cached --name-only runs with git's default rename detection:
\* a path deleted from the index that git pairs with a path added to it is
\* the source of a rename, and only the destination of a rename is listed.

\* position of a path in the order git walks the paths in
PathPos(p) == CHOOSE k \in 1..Len(PathOrder) : PathOrder[k] = p

DeletedPaths(head, idx) == {p \in Paths : head[p] # Absent /\ idx[p] = Absent}
AddedPaths(head, idx) == {p \in Paths : head[p] = Absent /\ idx[p] # Absent}

RenameSources(pairs) == {pr[1] : pr \in pairs}
RenameDestinations(pairs) == {pr[2] : pr \in pairs}

\* exact renames: every added path, in path order, takes the first deleted
\* path not yet taken whose blob is the very blob added
RECURSIVE find_exact_renames(_, _, _, _)
find_exact_renames(head, idx, k, pairs) ==
    IF k > Len(PathOrder) THEN pairs
    ELSE LET d == PathOrder[k]
             free == {s \in DeletedPaths(head, idx) \ RenameSources(pairs) :
                        head[s] = idx[d]}
             s1 == CHOOSE s \in free : \A t \in free : PathPos(s) <= PathPos(t)
         IN  IF d \in AddedPaths(head, idx) /\ free # {}
             THEN find_exact_renames(head, idx, k + 1, pairs \cup {<<s1, d>>})
             ELSE find_exact_renames(head, idx, k + 1, pairs)

\* the spans git hashes a blob in: a span ends with a line feed or at 64
\* bytes, the CR of a CR LF is left out, and bytes after the last complete
\* span are not counted; fill is the number of filler bytes a span starts with
RECURSIVE SpanChunks(_, _, _, _)
SpanChunks(tail, i, fill, cur) ==
    IF i > Len(tail) THEN <<>>
    ELSE IF tail[i] = CR /\ i < Len(tail) /\ tail[i + 1] = LF
    THEN SpanChunks(tail, i + 1, fill, cur)
    ELSE LET span == Append(cur, tail[i])
         IN  IF tail[i] = LF \/ fill + Len(span) = 64
             THEN <<[fill |-> fill, bytes |-> span]>> \o SpanChunks(tail, i + 1, 0, <<>>)
             ELSE SpanChunks(tail, i + 1, fill, span)

BlobSpans(b) == SpanChunks(b.tail, 1, b.pad % 64, <<>>)

FillerSpan == [fill |-> 64, bytes |-> <<>>]

SpanKeys(b) ==
    {BlobSpans(b)[i] : i \in 1..Len(BlobSpans(b))}
        \cup (IF b.pad >= 64 THEN {FillerSpan} ELSE {})

\* the bytes of blob b lying in spans equal to key
SpanCount(b, key) ==
    (IF key = FillerSpan THEN 64 * (b.pad \div 64) ELSE 0)
        + Cardinality({i \in 1..Len(BlobSpans(b)) : BlobSpans(b)[i] = key})
            * (key.fill + Len(key.bytes))

\* the bytes of src found again in dst, span by span
RECURSIVE SrcCopied(_, _, _)
SrcCopied(src, dst, keys) ==
    IF keys = {} THEN 0
    ELSE LET key == CHOOSE x \in keys : TRUE
             s == SpanCount(src, key)
             d == SpanCount(dst, key)
         IN  (IF s < d THEN s ELSE d) + SrcCopied(src, dst, keys \ {key})

\* git's similarity score src_copied * 60000 / max_size, 0 when the sizes
\* differ by more than half of the larger one; the quotient is formed in
\* three steps so that no product exceeds 32 bits
estimate_similarity(src, dst) ==
    LET max_size == IF BlobSize(src) > BlobSize(dst) THEN BlobSize(src) ELSE BlobSize(dst)
        delta_size == max_size - (IF BlobSize(src) < BlobSize(dst)
                                  THEN BlobSize(src) ELSE BlobSize(dst))
        sc6 == 6 * SrcCopied(src, dst, SpanKeys(src))
        r1 == (sc6 % max_size) * 100
        r2 == (r1 % max_size) * 100
    IN  IF max_size < 2 * delta_size \/ BlobSize(dst) = 0 THEN 0
        ELSE (sc6 \div max_size) * 10000 + (r1 \div max_size) * 100 + (r2 \div max_size)

\* inexact renames among the paths left over: pairs scoring at least half of
\* the full score, the best score first and the earlier source on a tie
RECURSIVE find_renames(_, _, _)
find_renames(head, idx, pairs) ==
    LET cands == {pr \in (DeletedPaths(head, idx) \ RenameSources(pairs))
                          \X (AddedPaths(head, idx) \ RenameDestinations(pairs)) :
                    estimate_similarity(head[pr[1]], idx[pr[2]]) >= 30000}
        Before(a, b) ==
            LET sa == estimate_similarity(head[a[1]], idx[a[2]])
                sb == estimate_similarity(head[b[1]], idx[b[2]])
            IN  \/ sa > sb
                \/ sa = sb /\ PathPos(a[1]) < PathPos(b[1])
                \/ sa = sb /\ a[1] = b[1] /\ PathPos(a[2]) <= PathPos(b[2])
        best == CHOOSE a \in cands : \A b \in cands : Before(a, b)
    IN  IF cands = {} THEN pairs
        ELSE find_renames(head, idx, pairs \cup {best})

\* the (source, destination) pairs git reports as renames
RenamePairs(head, idx) == find_renames(head, idx, find_exact_renames(head, idx, 1, {}))

\* git diff --cached --name-only: paths whose index entry differs from HEAD,
\* but for the sources of the renames
StagedSet(head, idx) ==
    {p \in Paths : idx[p] # head[p]} \ RenameSources(RenamePairs(head, idx))

\* the fix applied whatever the old and new bytes are
fix_path_no_predicate(head, st, path, target, dry_run) ==
    IF dry_run \/ st.worktree[path] = Absent THEN st
    ELSE LET w == strip_worktree_file(st.worktree, path).worktree
         IN [st EXCEPT !.worktree = w,
                       !.index = IF target = "Index"
                                 THEN git_add_path(st.index, w, path) ELSE @]

\* fix_path_against_head on st = [ok, index, worktree]: an error of
\* rev_parse_oid or blob_bytes_limited is returned with `?`
fix_path_against_head(head, st, path, target, dry_run) ==
    LET old == head[path]
        new == IF target = "Worktree" THEN st.worktree[path] ELSE st.index[path]
        err == [st EXCEPT !.ok = FALSE]
    IN  IF ~rev_parse_oid_ok(head, path) THEN err
        ELSE IF ~blob_bytes_limited_ok(old) THEN err
        ELSE IF target = "Worktree" /\ new = Absent THEN st
        ELSE IF target = "Index" /\ ~rev_parse_oid_ok(st.index, path) THEN err
        ELSE IF target = "Index" /\ ~blob_bytes_limited_ok(new) THEN err
        ELSE IF ~BlobAdded(old, new) THEN st
        ELSE IF dry_run THEN st
        ELSE LET s == strip_worktree_file(st.worktree, path)
             IN  IF ~s.ok THEN err
                 ELSE IF target = "Worktree" THEN [st EXCEPT !.worktree = s.worktree]
                 ELSE [st EXCEPT !.worktree = s.worktree,
                                 !.index = git_add_path(st.index, s.worktree, path)]

\* one `for p in set` loop of run_n0, in BTreeSet order, from position k
RECURSIVE fix_each(_, _, _, _, _, _)
fix_each(head, st, set, k, target, dry_run) ==
    IF k > Len(PathOrder) \/ ~st.ok THEN st
    ELSE IF PathOrder[k] \in set
    THEN fix_each(head, fix_path_against_head(head, st, PathOrder[k], target, dry_run),
                  set, k + 1, target, dry_run)
    ELSE fix_each(head, st, set, k + 1, target, dry_run)

\* run_n0 that also takes the partially staged paths as unstaged
run_n0_no_partial_skip(cs, idx, wt, args) ==
    LET head == HeadTree(cs)
        unstaged_set == UnstagedSet(idx, wt)
        staged_set == StagedSet(head, idx)
        st0 == [ok |-> TRUE, index |-> idx, worktree |-> wt]
        st1 == fix_each(head, st0, unstaged_set, 1, "Worktree", args.dry_run)
    IN  fix_each(head, st1, staged_set \ unstaged_set, 1, "Index", args.dry_run)

run_n0(cs, idx, wt, args) ==
    LET head == HeadTree(cs)
        unstaged_set == UnstagedSet(idx, wt)
        staged_set == StagedSet(head, idx)
        st0 == [ok |-> TRUE, index |-> idx, worktree |-> wt]
        st1 == fix_each(head, st0, unstaged_set \ staged_set, 1, "Worktree", args.dry_run)
    IN  fix_each(head, st1, staged_set \ unstaged_set, 1, "Index", args.dry_run)

-----------------------------------------------------------------------------
(* --n 1: the most recent commit *)

\* the test of one changed path shared by run_n1 and
\* commit_has_added_eof_newline: both blobs resolved and read with the limit
PathQualifies(oldtree, newtree, path) ==
    /\ rev_parse_oid_ok(oldtree, path)
    /\ rev_parse_oid_ok(newtree, path)
    /\ blob_bytes_limited_ok(oldtree[path])
    /\ blob_bytes_limited_ok(newtree[path])
    /\ BlobAdded(oldtree[path], newtree[path])

\* the loop `for path in &paths_to_fix` of run_n1 (not dry run)
RECURSIVE strip_and_add_each(_, _, _)
strip_and_add_each(st, set, k) ==
    IF k > Len(PathOrder) \/ ~st.ok THEN st
    ELSE IF PathOrder[k] \in set
    THEN LET s == strip_worktree_file(st.worktree, PathOrder[k])
         IN  IF ~s.ok THEN [st EXCEPT !.ok = FALSE]
             ELSE strip_and_add_each(
                    [st EXCEPT !.worktree = s.worktree,
                               !.index = git_add_path(st.index, s.worktree, PathOrder[k])],
                    set, k + 1)
    ELSE strip_and_add_each(st, set, k + 1)

\* git commit --amend --no-edit --allow-empty: HEAD is replaced by a commit
\* of the index with the same parents, author and message
git_commit_amend(cs, idx) == [cs EXCEPT ![Len(cs)].tree = idx]

Unchanged(cs, idx, wt, ok) ==
    [ok |-> ok, commits |-> cs, index |-> idx, worktree |-> wt,
     amended |-> FALSE, invoked |-> FALSE, base |-> 0, needs_fix |-> <<>>,
     map |-> <<>>]

\* run_n1 without the dry-run returns
run_n1_ignores_dry_run(cs, idx, wt, args) ==
    LET paths_to_fix == {p \in changed_paths_in_commit(cs, Len(cs)) :
                            PathQualifies(cs[Len(cs) - 1].tree, cs[Len(cs)].tree, p)}
        st == strip_and_add_each([ok |-> TRUE, index |-> idx, worktree |-> wt],
                                 paths_to_fix, 1)
    IN  IF ~args.in_rebase /\ ~ensure_clean_worktree_ok(cs, idx, wt)
        THEN Unchanged(cs, idx, wt, FALSE)
        ELSE IF ~commit_matches_author_filter(cs[Len(cs)], args)
        THEN Unchanged(cs, idx, wt, TRUE)
        ELSE IF ~head_and_first_parent(cs).ok THEN Unchanged(cs, idx, wt, FALSE)
        ELSE IF paths_to_fix = {} THEN Unchanged(cs, idx, wt, TRUE)
        ELSE [Unchanged(git_commit_amend(cs, st.index), st.index, st.worktree, TRUE)
                EXCEPT !.amended = TRUE]

run_n1(cs, idx, wt, args) ==
    IF ~args.in_rebase /\ ~ensure_clean_worktree_ok(cs, idx, wt)
    THEN Unchanged(cs, idx, wt, FALSE)
    ELSE IF ~commit_matches_author_filter(cs[Len(cs)], args)
    THEN Unchanged(cs, idx, wt, TRUE)
    ELSE IF ~head_and_first_parent(cs).ok THEN Unchanged(cs, idx, wt, FALSE)
    ELSE LET head == Len(cs)
             parent == head_and_first_parent(cs).parent
             paths_to_fix == {p \in changed_paths_in_commit(cs, head) :
                                PathQualifies(cs[parent].tree, cs[head].tree, p)}
         IN  IF paths_to_fix = {} THEN Unchanged(cs, idx, wt, TRUE)
             ELSE IF args.dry_run THEN Unchanged(cs, idx, wt, TRUE)
             ELSE LET st == strip_and_add_each(
                              [ok |-> TRUE, index |-> idx, worktree |-> wt],
                              paths_to_fix, 1)
                  IN  IF ~st.ok THEN Unchanged(cs, st.index, st.worktree, FALSE)
                      ELSE [Unchanged(git_commit_amend(cs, st.index),
                                      st.index, st.worktree, TRUE)
                              EXCEPT !.amended = TRUE]

-----------------------------------------------------------------------------
(* --in-filter-branch: the tree filter run on one checked-out commit *)

\* the loop over the changed paths, on st = [ok, worktree, changed_any]
RECURSIVE filter_step_each(_, _, _, _, _)
filter_step_each(st, oldtree, changed, dry_run, k) ==
    IF k > Len(PathOrder) \/ ~st.ok THEN st
    ELSE LET path == PathOrder[k]
             next(s) == filter_step_each(s, oldtree, changed, dry_run, k + 1)
         IN  IF path \notin changed THEN next(st)
             ELSE IF ~rev_parse_oid_ok(oldtree, path) THEN next(st)
             ELSE IF ~blob_bytes_limited_ok(oldtree[path]) THEN next(st)
             ELSE IF st.worktree[path] = Absent THEN next(st)
             ELSE IF BlobAdded(oldtree[path], st.worktree[path]) /\ ~dry_run
             THEN LET s == strip_worktree_file(st.worktree, path)
                  IN  IF ~s.ok THEN [st EXCEPT !.ok = FALSE]
                      ELSE next([st EXCEPT !.worktree = s.worktree,
                                           !.changed_any = TRUE])
             ELSE next(st)

\* the tree filter without the author filter
run_filter_branch_step_no_author_filter(cs, idx, wt, args, commit) ==
    IF args.n # 1 THEN Unchanged(cs, idx, wt, FALSE)
    ELSE IF ~first_parent_of_commit(cs, commit).ok THEN Unchanged(cs, idx, wt, FALSE)
    ELSE LET st == filter_step_each(
                     [ok |-> TRUE, worktree |-> wt, changed_any |-> FALSE],
                     cs[commit - 1].tree, changed_paths_in_commit(cs, commit),
                     args.dry_run, 1)
         IN  Unchanged(cs, IF st.changed_any THEN st.worktree ELSE idx, st.worktree, st.ok)

\* run_filter_branch_step; `commit` is the position GIT_COMMIT names (HEAD
\* when the variable is unset); git add -A makes the index the working tree
run_filter_branch_step(cs, idx, wt, args, commit) ==
    IF args.n # 1 THEN Unchanged(cs, idx, wt, FALSE)
    ELSE IF ~commit_matches_author_filter(cs[commit], args)
    THEN Unchanged(cs, idx, wt, TRUE)
    ELSE IF ~first_parent_of_commit(cs, commit).ok THEN Unchanged(cs, idx, wt, FALSE)
    ELSE LET parent == first_parent_of_commit(cs, commit).parent
             st == filter_step_each(
                     [ok |-> TRUE, worktree |-> wt, changed_any |-> FALSE],
                     cs[parent].tree, changed_paths_in_commit(cs, commit),
                     args.dry_run, 1)
         IN  IF ~st.ok THEN Unchanged(cs, idx, st.worktree, FALSE)
             ELSE IF st.changed_any THEN Unchanged(cs, st.worktree, st.worktree, TRUE)
             ELSE Unchanged(cs, idx, st.worktree, TRUE)

-----------------------------------------------------------------------------
(* --n >1: the range driver and git filter-branch *)

\* ensure_not_in_rebase
ensure_not_in_rebase_ok(rb) == ~rb

\* recent_first_parent_commits: the position of the oldest of the n most
\* recent commits of the lineage (all of it when it is shorter)
recent_first_parent_commits(cs, n) == IF Len(cs) > n THEN Len(cs) - n + 1 ELSE 1

\* commit_has_added_eof_newline, after its first_parent_of_commit succeeded
commit_has_added_eof_newline(cs, i) ==
    \E p \in changed_paths_in_commit(cs, i) :
        PathQualifies(cs[i - 1].tree, cs[i].tree, p)

\* the scan with a merge or root commit taken as not needing a fix
RECURSIVE scan_commits_skips_unsupported(_, _, _, _)
scan_commits_skips_unsupported(cs, args, i, acc) ==
    IF i > Len(cs) THEN acc
    ELSE IF commit_matches_author_filter(cs[i], args)
            /\ first_parent_of_commit(cs, i).ok
            /\ commit_has_added_eof_newline(cs, i)
    THEN scan_commits_skips_unsupported(cs, args, i + 1,
            [acc EXCEPT !.needs_fix = Append(@, i)])
    ELSE scan_commits_skips_unsupported(cs, args, i + 1, acc)

\* the loop `for commit in &commits` of run_n_gt1 from position i, on
\* acc = [ok, needs_fix]
RECURSIVE scan_commits(_, _, _, _)
scan_commits(cs, args, i, acc) ==
    IF i > Len(cs) \/ ~acc.ok THEN acc
    ELSE IF ~commit_matches_author_filter(cs[i], args)
    THEN scan_commits(cs, args, i + 1, acc)
    ELSE IF ~first_parent_of_commit(cs, i).ok THEN [acc EXCEPT !.ok = FALSE]
    ELSE IF commit_has_added_eof_newline(cs, i)
    THEN scan_commits(cs, args, i + 1, [acc EXCEPT !.needs_fix = Append(@, i)])
    ELSE scan_commits(cs, args, i + 1, acc)

\* build_filter_branch_tree_filter_command: the arguments the tree filter
\* is run with
build_filter_branch_tree_filter_command(args) ==
    [n |-> 1, dry_run |-> FALSE, in_rebase |-> FALSE, in_filter_branch |-> TRUE,
     author_name |-> args.author_name, author_email |-> args.author_email]

\* what the second parent of a merge of the range brings in: the filter
\* fails on one of its commits ("fails"), or its rewritten counterpart is a
\* commit other than the rewritten first parent ("distinct"), or it is that
\* very commit ("same": the second parent is the commit the first parent is
\* pruned to, or is itself pruned to it)
SideOutcomes == {"fails", "distinct", "same"}

\* git filter-branch -f --prune-empty --tree-filter <cmd> base..HEAD on the
\* lineage, from commit i on: each commit's own tree is checked out, the
\* filter is run with GIT_COMMIT naming the original commit, the parents are
\* mapped to their counterparts with duplicates dropped, and the commit is
\* re-created on them unless it is left with one parent and its tree equals
\* that parent's (--prune-empty).  out = [ok, commits, map]
RECURSIVE filter_branch_from(_, _, _, _, _)
filter_branch_from(cs, cmd, side, i, out) ==
    IF i > Len(cs) \/ ~out.ok THEN out
    ELSE LET r == run_filter_branch_step(cs, cs[i].tree, cs[i].tree, cmd, i)
             tip == out.commits[Len(out.commits)]
             two_parents == cs[i].merge /\ side # "same"
         IN  IF ~r.ok \/ (cs[i].merge /\ side = "fails") THEN [out EXCEPT !.ok = FALSE]
             ELSE IF ~two_parents /\ r.worktree = tip.tree
             THEN filter_branch_from(cs, cmd, side, i + 1,
                    [out EXCEPT !.map = Append(@, Len(out.commits))])
             ELSE filter_branch_from(cs, cmd, side, i + 1,
                    [out EXCEPT !.commits = Append(@, [cs[i] EXCEPT !.tree = r.worktree,
                                                                   !.merge = two_parents]),
                                !.map = Append(@, Len(out.commits) + 1)])

Identity(n) == [i \in 1..n |-> i]

git_filter_branch(cs, cmd, side, base) ==
    filter_branch_from(cs, cmd, side, base + 1,
        [ok |-> TRUE, commits |-> SubSeq(cs, 1, base), map |-> Identity(base)])

\* the driver taking the newest commit needing a fix for the base
n_gt1_base_of_newest(cs, needs_fix) == needs_fix[Len(needs_fix)] - 1

\* earliest = needs_fix.first(); base = first_parent_of_commit(earliest)
n_gt1_base(cs, needs_fix) == first_parent_of_commit(cs, needs_fix[1]).parent

run_n_gt1(cs, idx, wt, rb, args, side) ==
    IF ~ensure_clean_worktree_ok(cs, idx, wt) THEN Unchanged(cs, idx, wt, FALSE)
    ELSE IF ~ensure_not_in_rebase_ok(rb) THEN Unchanged(cs, idx, wt, FALSE)
    ELSE LET scan == scan_commits(cs, args, recent_first_parent_commits(cs, args.n),
                                  [ok |-> TRUE, needs_fix |-> <<>>])
         IN  IF ~scan.ok THEN Unchanged(cs, idx, wt, FALSE)
             ELSE IF scan.needs_fix = <<>> THEN Unchanged(cs, idx, wt, TRUE)
             ELSE LET base == n_gt1_base(cs, scan.needs_fix)
                      plan == [Unchanged(cs, idx, wt, TRUE)
                                 EXCEPT !.base = base, !.needs_fix = scan.needs_fix]
                  IN  IF args.dry_run THEN plan
                      ELSE LET fb == git_filter_branch(
                                       cs, build_filter_branch_tree_filter_command(args),
                                       side, base)
                           IN  IF ~fb.ok THEN [plan EXCEPT !.ok = FALSE, !.invoked = TRUE]
                               ELSE [plan EXCEPT
                                        !.commits = fb.commits,
                                        !.index = HeadTree(fb.commits),
                                        !.worktree = HeadTree(fb.commits),
                                        !.invoked = TRUE,
                                        !.map = fb.map]

-----------------------------------------------------------------------------
(* One run of the program: fn run dispatches on the arguments *)

Args(n, dry_run, in_rebase, in_filter_branch, author_name, author_email) ==
    [n |-> n, dry_run |-> dry_run, in_rebase |-> in_rebase,
     in_filter_branch |-> in_filter_branch,
     author_name |-> author_name, author_email |-> author_email]

NameNeedles == {None, Some(<<"A", "L">>), Some(<<"b", "o">>)}
EmailNeedles == {None, Some(<<"A", "L", "@">>)}

Snapshot(cs, idx, wt) == [commits |-> cs, index |-> idx, worktree |-> wt]

\* a run is recorded with the state before and after it; a second run
\* repeats the first invocation
CanRun(mode, args, commit) ==
    /\ Len(hist) < MaxRuns
    /\ hist # <<>> =>
          /\ hist[1].mode = mode
          /\ hist[1].args = args
          /\ hist[1].commit = commit

Finish(mode, args, commit, r) ==
    /\ commits' = r.commits
    /\ index' = r.index
    /\ worktree' = r.worktree
    /\ UNCHANGED rebasing
    /\ hist' = Append(hist,
          [mode |-> mode, args |-> args, commit |-> commit,
           pre |-> Snapshot(commits, index, worktree),
           post |-> Snapshot(r.commits, r.index, r.worktree),
           ok |-> r.ok, amended |-> r.amended, invoked |-> r.invoked,
           base |-> r.base, needs_fix |-> r.needs_fix, map |-> r.map])

\* (0, false) => run_n0
RunN0 ==
    \E dry \in BOOLEAN :
        LET args == Args(0, dry, FALSE, FALSE, None, None)
            st == run_n0(commits, index, worktree, args)
        IN  /\ CanRun("n0", args, 0)
            /\ Finish("n0", args, 0, Unchanged(commits, st.index, st.worktree, st.ok))

\* (1, _) => run_n1
RunN1(names, emails) ==
    \E dry \in BOOLEAN, in_rebase \in BOOLEAN, name \in names, email \in emails :
        LET args == Args(1, dry, in_rebase, FALSE, name, email)
        IN  /\ CanRun("n1", args, 0)
            /\ Finish("n1", args, 0, run_n1(commits, index, worktree, args))

\* _ => run_n_gt1, for n >= 2 without --in-rebase
RunNGt1(names, emails) ==
    \E n \in 2..MaxCommits, dry \in BOOLEAN, name \in names, email \in emails,
       side \in SideOutcomes :
        LET args == Args(n, dry, FALSE, FALSE, name, email)
        IN  /\ CanRun("n_gt1", args, 0)
            /\ Finish("n_gt1", args, 0,
                      run_n_gt1(commits, index, worktree, rebasing, args, side))

\* args.in_filter_branch => run_filter_branch_step; GIT_COMMIT names any
\* commit of the lineage
RunFilterBranchStep(names, emails) ==
    \E n \in 1..2, dry \in BOOLEAN, name \in names, email \in emails,
       commit \in 1..Len(commits) :
        LET args == Args(n, dry, FALSE, TRUE, name, email)
        IN  /\ n = 2 => ~dry /\ name = None /\ email = None
            /\ CanRun("filter_step", args, commit)
            /\ Finish("filter_step", args, commit,
                      run_filter_branch_step(commits, index, worktree, args, commit))

\* (0, true) and (_, true) => Err: --in-rebase with --n 0 or --n >1
RunInRebaseRejected ==
    \E n \in {0, 2}, dry \in BOOLEAN :
        LET args == Args(n, dry, TRUE, FALSE, None, None)
        IN  /\ CanRun("rejected", args, 0)
            /\ Finish("rejected", args, 0, Unchanged(commits, index, worktree, FALSE))

-----------------------------------------------------------------------------
(* Repositories the runs start from *)

A == OtherByte

MkTree(e, f, g) == [p \in Paths |-> IF p = "e" THEN e ELSE IF p = "f" THEN f ELSE g]

MkCommit(tree, author, merge, msg) ==
    [tree |-> tree, author |-> author, merge |-> merge, msg |-> msg]

\* contents that differ in what the last two bytes are
Texts == {Txt(<<>>), Txt(<<A>>), Txt(<<LF>>), Txt(<<A, LF>>),
          Txt(<<CR, LF>>), Txt(<<LF, LF>>)}

\* a blob of exactly the ceiling, and one a byte above it
Bigs == {Blob(BlobCeiling, <<>>), Blob(BlobCeiling, <<LF>>)}

FocusVals == Texts \cup Bigs \cup {Absent}

\* a (HEAD, index, working tree) triple of a path beside the one under study:
\* clean, a newline added unstaged, a newline added and staged, a new file
\* staged, a staged deletion
ContextTriples ==
    { <<Txt(<<A>>), Txt(<<A>>), Txt(<<A>>)>>,
      <<Txt(<<A>>), Txt(<<A>>), Txt(<<A, LF>>)>>,
      <<Txt(<<A>>), Txt(<<A, LF>>), Txt(<<A, LF>>)>>,
      <<Absent, Txt(<<A>>), Txt(<<A>>)>>,
      <<Txt(<<A>>), Absent, Absent>> }

\* --n 0: one commit, every (HEAD, index, working tree) for path f
InitN0 ==
    \E tf \in FocusVals \X FocusVals \X FocusVals,
       te \in ContextTriples, tg \in ContextTriples :
        /\ commits = <<MkCommit(MkTree(te[1], tf[1], tg[1]), Alice, FALSE, 1)>>
        /\ index = MkTree(te[2], tf[2], tg[2])
        /\ worktree = MkTree(te[3], tf[3], tg[3])
        /\ rebasing = FALSE
        /\ hist = <<>>

NextN0 == RunN0

SpecN0 == InitN0 /\ [][NextN0]_vars

Authors == {Alice, Bob}

\* a lineage of L commits from per-commit choices h[i] = <<f, g, author,
\* merge>>; path e is never modified, the root is no merge, and the message
\* of a commit is its position
Lineage(L, h) ==
    [i \in 1..L |->
        MkCommit(MkTree(Txt(<<A>>), h[i][1], h[i][2]), h[i][3], h[i][4] /\ i > 1, i)]

Choices(fvals, gvals) == fvals \X gvals \X Authors \X BOOLEAN

\* index and working tree of a lineage: clean, or with one of the changes
\* "unstaged" (f edited), "staged" (g edited and added), "gone" (f deleted
\* and the deletion not staged)
DirtyKinds == {"clean", "unstaged", "staged", "gone"}

DirtyIndex(head, kind) ==
    IF kind = "staged" THEN [head EXCEPT !["g"] = Txt(<<LF, A>>)] ELSE head

DirtyWorktree(head, kind) ==
    CASE kind = "unstaged" -> [head EXCEPT !["f"] = Txt(<<A, A>>)]
      [] kind = "staged" -> [head EXCEPT !["g"] = Txt(<<LF, A>>)]
      [] kind = "gone" -> [head EXCEPT !["f"] = Absent]
      [] OTHER -> head

\* --n 1 and the tree filter: a commit and its parent, every pair of
\* contents of path f, clean and dirty working trees
N1GVals == {Txt(<<A>>), Txt(<<A, LF>>)}

InitN1 ==
    \E L \in 1..2, h \in [1..2 -> Choices(FocusVals, N1GVals)], kind \in DirtyKinds :
        /\ h[1][2] = Txt(<<A>>)
        /\ h[1][3] = Alice
        /\ commits = Lineage(L, h)
        /\ index = DirtyIndex(HeadTree(Lineage(L, h)), kind)
        /\ worktree = DirtyWorktree(HeadTree(Lineage(L, h)), kind)
        /\ rebasing = FALSE
        /\ hist = <<>>

NextN1 ==
    \/ RunN1(NameNeedles, EmailNeedles)
    \/ RunFilterBranchStep(NameNeedles, EmailNeedles)

SpecN1 == InitN1 /\ [][NextN1]_vars

\* --n >1: lineages of up to MaxCommits commits with every content of path f
\* (one blob above the ceiling at most), where at most one commit above the
\* root modifies path g (gp), is Bob's (bp) or is a merge (mp), 0 for none;
\* clean, and on the plain ones among them a dirty tree or a rebase in
\* progress
RangeVals == {Txt(<<A>>), Txt(<<A, LF>>), Txt(<<LF, LF>>), Blob(BlobCeiling, <<LF>>)}
RangeGVals == {Txt(<<A>>), Txt(<<A, LF>>)}

RangeChoices(L, fv, gp, bp, mp) ==
    [i \in 1..L |->
        <<fv[i], IF i = gp THEN Txt(<<A, LF>>) ELSE Txt(<<A>>),
          IF i = bp THEN Bob ELSE Alice, i = mp>>]

InitRange ==
    \E L \in 1..MaxCommits :
      \E fv \in [1..L -> RangeVals],
         gp \in {0} \cup 2..L, bp \in 0..L, mp \in {0} \cup 2..L,
         kind \in {"clean", "unstaged"}, rb \in BOOLEAN :
        LET h == RangeChoices(L, fv, gp, bp, mp)
        IN  /\ Cardinality({i \in 1..L : ~blob_bytes_limited_ok(fv[i])}) <= 1
            /\ (kind # "clean" \/ rb) => (gp = 0 /\ bp = 0 /\ mp = 0)
            /\ commits = Lineage(L, h)
            /\ index = DirtyIndex(HeadTree(Lineage(L, h)), kind)
            /\ worktree = DirtyWorktree(HeadTree(Lineage(L, h)), kind)
            /\ rebasing = rb
            /\ hist = <<>>

RangeEmails == {None, Some(<<"A", "L", "@">>)}

NextRange == RunNGt1({None}, RangeEmails)

SpecRange == InitRange /\ [][NextRange]_vars

\* every mode: one commit with uncommitted changes, or a lineage whose
\* older commits are Alice's and no merges, clean or dirty
PlainVals == {Txt(<<A>>), Txt(<<A, LF>>), Txt(<<LF, LF>>)}

InitWorking ==
    \E tf \in PlainVals \X PlainVals \X PlainVals, tg \in ContextTriples :
        /\ commits = <<MkCommit(MkTree(Txt(<<A>>), tf[1], tg[1]), Alice, FALSE, 1)>>
        /\ index = MkTree(Txt(<<A>>), tf[2], tg[2])
        /\ worktree = MkTree(Txt(<<A>>), tf[3], tg[3])
        /\ rebasing = FALSE
        /\ hist = <<>>

InitLineage ==
    \E L \in 1..MaxCommits :
      \E h \in [1..L -> Choices(PlainVals, RangeGVals)], kind \in DirtyKinds :
        /\ h[1][2] = Txt(<<A>>)
        /\ \A i \in 1..(L - 1) : h[i][3] = Alice /\ ~h[i][4]
        /\ commits = Lineage(L, h)
        /\ index = DirtyIndex(HeadTree(Lineage(L, h)), kind)
        /\ worktree = DirtyWorktree(HeadTree(Lineage(L, h)), kind)
        /\ rebasing = FALSE
        /\ hist = <<>>

Init == InitWorking \/ InitLineage

PlainNames == {None, Some(<<"b", "o">>)}

Next ==
    \/ RunN0
    \/ RunN1(PlainNames, {None})
    \/ RunNGt1(PlainNames, {None})
    \/ RunFilterBranchStep(PlainNames, {None})
    \/ RunInRebaseRejected

Spec == Init /\ [][Next]_vars

-----------------------------------------------------------------------------
(* Vocabulary of the properties, stated on the recorded runs *)

LastByteIsLF(b) == b # Absent /\ Len(b.tail) > 0 /\ b.tail[Len(b.tail)] = LF

\* the path is in both trees with different content, the old content does
\* not end in a line-feed and the new content does
GainedTerminator(oldtree, newtree, p) ==
    /\ oldtree[p] # Absent
    /\ newtree[p] # Absent
    /\ oldtree[p] # newtree[p]
    /\ ~LastByteIsLF(oldtree[p])
    /\ LastByteIsLF(newtree[p])

WithinCeiling(b) == b # Absent /\ b.pad + Len(b.tail) <= BlobCeiling

\* `after` is `before` without its last terminator: a line-feed, together
\* with the carriage-return before it when there is one
OneTerminatorRemoved(before, after) ==
    /\ before # Absent
    /\ after # Absent
    /\ after.pad = before.pad
    /\ \/ before.tail = after.tail \o <<CR, LF>>
       \/ /\ before.tail = after.tail \o <<LF>>
          /\ ~(Len(after.tail) > 0 /\ after.tail[Len(after.tail)] = CR)

\* case-insensitive substring filters on the author, both to be met
AuthorPasses(c, args) ==
    /\ args.author_name.some =>
          \E i \in 0..Len(c.author.name) : \E j \in i..Len(c.author.name) :
              to_lowercase(SubSeq(c.author.name, i + 1, j)) = to_lowercase(args.author_name.v)
    /\ args.author_email.some =>
          \E i \in 0..Len(c.author.email) : \E j \in i..Len(c.author.email) :
              to_lowercase(SubSeq(c.author.email, i + 1, j)) = to_lowercase(args.author_email.v)

IsMerge(cs, i) == i > 1 /\ cs[i].merge
IsRoot(cs, i) == i = 1

\* the N commits a range run collects from the lineage
Collected(r) ==
    {i \in 1..Len(r.pre.commits) : i > Len(r.pre.commits) - r.args.n}

\* a collected commit the range run flags: it passes the author filter and
\* one of the paths it modifies gained a terminator (both blobs readable)
Flagged(r) ==
    {i \in Collected(r) :
        /\ AuthorPasses(r.pre.commits[i], r.args)
        /\ ~IsRoot(r.pre.commits, i)
        /\ ~IsMerge(r.pre.commits, i)
        /\ \E p \in Paths :
              /\ GainedTerminator(r.pre.commits[i - 1].tree, r.pre.commits[i].tree, p)
              /\ WithinCeiling(r.pre.commits[i - 1].tree[p])
              /\ WithinCeiling(r.pre.commits[i].tree[p])}

SetMin(S) == CHOOSE x \in S : \A y \in S : x <= y

RangeRuns == {k \in 1..Len(hist) : hist[k].mode = "n_gt1"}

\* C1: in a range run that got past its scan with a commit flagged, the
\* rewrite base is the first parent of the oldest flagged commit: every
\* flagged commit lies in (base, HEAD], the commit right after the base is
\* the oldest flagged one, and a rewrite leaves the commits up to the base
\* as they were.
C1_BaseIsParentOfOldestFlagged ==
    \A k \in RangeRuns :
        LET r == hist[k]
        IN  ((r.ok \/ r.invoked) /\ Flagged(r) # {}) =>
              /\ r.base = SetMin(Flagged(r)) - 1
              /\ \A i \in Flagged(r) : r.base < i /\ i <= Len(r.pre.commits)
              /\ \A i \in 1..Len(r.needs_fix) : r.needs_fix[i] \in Flagged(r)
              /\ Len(r.post.commits) >= r.base
              /\ SubSeq(r.post.commits, 1, r.base) = SubSeq(r.pre.commits, 1, r.base)

\* a live range run rewrote from the root although the newest commit is
\* flagged too
C1_Witness ==
    \E k \in RangeRuns :
        /\ hist[k].ok /\ hist[k].invoked
        /\ hist[k].args.n = 2
        /\ Len(hist[k].pre.commits) = 3
        /\ Flagged(hist[k]) = {2, 3}
        /\ hist[k].base = 1

\* a range run is live and its rewrite succeeded
Rewritten(r) == r.mode = "n_gt1" /\ r.ok /\ r.invoked

\* the commit that stands for commit i of the old lineage after the rewrite
Counterpart(r, i) == r.post.commits[r.map[i]]

\* C2 as stated: after a live range run with an author filter, a commit of
\* the rewritten range whose author does not match keeps every path's
\* content, and a matching commit has every modified path that gained a
\* terminator no longer ending in one.
C2_Original_RepairedEndsWithoutTerminator ==
    \A k \in RangeRuns :
        LET r == hist[k]
        IN  (Rewritten(r) /\ r.args.author_email.some) =>
              \A i \in (r.base + 1)..Len(r.pre.commits) :
                  IF ~AuthorPasses(r.pre.commits[i], r.args)
                  THEN Counterpart(r, i).tree = r.pre.commits[i].tree
                  ELSE \A p \in Paths :
                          GainedTerminator(r.pre.commits[i - 1].tree,
                                           r.pre.commits[i].tree, p)
                          => ~LastByteIsLF(Counterpart(r, i).tree[p])

\* C2 (amended): a non-matching commit keeps every path's content; in a
\* matching commit every modified path that gained a terminator over a
\* parent blob within the size ceiling holds its content with exactly one
\* trailing terminator removed (it still ends in one when the commit's
\* content ended in several).
C2_RepairedLosesOneTerminator ==
    \A k \in RangeRuns :
        LET r == hist[k]
        IN  (Rewritten(r) /\ r.args.author_email.some) =>
              \A i \in (r.base + 1)..Len(r.pre.commits) :
                  IF ~AuthorPasses(r.pre.commits[i], r.args)
                  THEN Counterpart(r, i).tree = r.pre.commits[i].tree
                  ELSE \A p \in Paths :
                          (/\ GainedTerminator(r.pre.commits[i - 1].tree,
                                               r.pre.commits[i].tree, p)
                           /\ WithinCeiling(r.pre.commits[i - 1].tree[p]))
                          => OneTerminatorRemoved(r.pre.commits[i].tree[p],
                                                  Counterpart(r, i).tree[p])

\* the filter kept the newer commit, which gained a terminator too, as it
\* was, and repaired the older, matching one
C2_Witness ==
    \E k \in RangeRuns :
        LET r == hist[k]
        IN  /\ Rewritten(r) /\ r.args.author_email.some
            /\ Len(r.pre.commits) = 3 /\ r.base = 1
            /\ AuthorPasses(r.pre.commits[2], r.args)
            /\ ~AuthorPasses(r.pre.commits[3], r.args)
            /\ GainedTerminator(r.pre.commits[1].tree, r.pre.commits[2].tree, "f")
            /\ GainedTerminator(r.pre.commits[2].tree, r.pre.commits[3].tree, "g")
            /\ Len(r.post.commits) = 3
            /\ LastByteIsLF(r.post.commits[3].tree["g"])
            /\ r.post.commits[2].tree["f"] # r.pre.commits[2].tree["f"]

\* C3 as stated: a range run that collects a merge commit fails and does
\* not invoke the rewrite, whatever the author filters are.
C3_MergeInRangeFails ==
    \A k \in RangeRuns :
        LET r == hist[k]
        IN  (\E i \in Collected(r) : IsMerge(r.pre.commits, i))
            => ~r.ok /\ ~r.invoked

-----------------------------------------------------------------------------
(* Properties of every mode *)

AllRuns == 1..Len(hist)

\* C4: a run with --dry-run, in whatever mode and state, leaves the
\* commits, the index and the working tree as they were, amends nothing and
\* does not invoke the rewrite.
C4_DryRunChangesNothing ==
    \A k \in AllRuns :
        hist[k].args.dry_run =>
            /\ hist[k].post = hist[k].pre
            /\ ~hist[k].amended
            /\ ~hist[k].invoked

\* dry runs of every mode on states where the same run without --dry-run
\* changes something
C4_Witness ==
    /\ Len(hist) = 1
    /\ hist[1].args.dry_run
    /\ hist[1].ok
    /\ \/ /\ hist[1].mode = "n_gt1"
          /\ hist[1].needs_fix # <<>>
       \/ /\ hist[1].mode = "n1"
          /\ Len(commits) >= 2
          /\ ~IsMerge(commits, Len(commits))
          /\ ensure_clean_worktree_ok(commits, index, worktree)
          /\ AuthorPasses(commits[Len(commits)], hist[1].args)
          /\ GainedTerminator(commits[Len(commits) - 1].tree, HeadTree(commits), "f")
       \/ /\ hist[1].mode = "n0"
          /\ index["f"] = HeadTree(commits)["f"]
          /\ GainedTerminator(HeadTree(commits), worktree, "f")

\* the old and the new content the mode compares for a path: HEAD against
\* the working or the staged version (--n 0), the first parent against the
\* commit (--n 1, --n >1), the first parent against the checked-out file
\* (tree filter)
PredicateHolds(r, p) ==
    LET cs == r.pre.commits
        L == Len(cs)
    IN  CASE r.mode = "n0" ->
               \/ /\ r.pre.index[p] = cs[L].tree[p]
                  /\ GainedTerminator(cs[L].tree, r.pre.worktree, p)
               \/ /\ r.pre.worktree[p] = r.pre.index[p]
                  /\ GainedTerminator(cs[L].tree, r.pre.index, p)
          [] r.mode \in {"n1", "n_gt1"} ->
               L >= 2 /\ GainedTerminator(cs[L - 1].tree, cs[L].tree, p)
          [] r.mode = "filter_step" ->
               /\ r.commit >= 2
               /\ cs[r.commit - 1].tree[p] # Absent
               /\ r.pre.worktree[p] # Absent
               /\ ~LastByteIsLF(cs[r.commit - 1].tree[p])
               /\ LastByteIsLF(r.pre.worktree[p])
          [] OTHER -> FALSE

\* the content of path p in the commits is what it was: commit by commit
\* through the rewrite map of a range run, which may drop commits
CommitsKeep(r, p) ==
    IF r.mode = "n_gt1" /\ r.ok /\ r.invoked
    THEN \A i \in 1..Len(r.pre.commits) :
            \/ Counterpart(r, i).tree[p] = r.pre.commits[i].tree[p]
            \/ /\ i >= 2
               /\ GainedTerminator(r.pre.commits[i - 1].tree, r.pre.commits[i].tree, p)
    ELSE /\ Len(r.post.commits) = Len(r.pre.commits)
         /\ \A i \in 1..Len(r.pre.commits) :
                r.post.commits[i].tree[p] = r.pre.commits[i].tree[p]

\* C6 as stated: in every mode a path for which the predicate is false is
\* left byte-identical in the working tree, the index and the commits.
C6_Original_OnlyQualifyingPathsWritten ==
    \A k \in AllRuns : \A p \in Paths :
        LET r == hist[k]
        IN  ~PredicateHolds(r, p) =>
              /\ r.post.worktree[p] = r.pre.worktree[p]
              /\ r.post.index[p] = r.pre.index[p]
              /\ CommitsKeep(r, p)

\* the run starts with nothing pending that its mode does not examine:
\* always for --n 0 and --n >1 (which refuses a dirty tree), a clean tree
\* for --n 1, an index equal to the working tree for the tree filter
NothingElsePending(r) ==
    CASE r.mode = "n1" ->
           ensure_clean_worktree_ok(r.pre.commits, r.pre.index, r.pre.worktree)
      [] r.mode = "filter_step" -> r.pre.index = r.pre.worktree
      [] OTHER -> TRUE

\* C6 (amended): in every mode a working-tree file is rewritten only if the
\* predicate holds for its path; and when nothing else is pending at the
\* start, a path for which the predicate is false is also left
\* byte-identical in the index and in the commits.
C6_OnlyQualifyingPathsWritten ==
    \A k \in AllRuns : \A p \in Paths :
        LET r == hist[k]
        IN  ~PredicateHolds(r, p) =>
              /\ r.post.worktree[p] = r.pre.worktree[p]
              /\ NothingElsePending(r) =>
                    /\ r.post.index[p] = r.pre.index[p]
                    /\ CommitsKeep(r, p)

\* a --n 0 run repaired path g and left path f, which ends in a line-feed
\* at HEAD already, with its unstaged change
C6_Witness ==
    \E k \in AllRuns :
        LET r == hist[k]
        IN  /\ r.mode = "n0" /\ r.ok /\ ~r.args.dry_run
            /\ PredicateHolds(r, "g")
            /\ r.post.worktree["g"] # r.pre.worktree["g"]
            /\ ~PredicateHolds(r, "f")
            /\ LastByteIsLF(r.pre.worktree["f"])
            /\ r.pre.worktree["f"] # r.pre.index["f"]
            /\ r.post.worktree["f"] = r.pre.worktree["f"]

\* b is a, or a with one terminator removed
AtMostOneRemoved(a, b) == a = b \/ OneTerminatorRemoved(a, b)

\* C7 as stated: a path that does not qualify is left byte-identical, and
\* two runs in succession in the same mode remove at most one trailing
\* terminator in total from the content they repair (the working-tree file
\* in --n 0, the content at HEAD in --n 1 on a clean tree).
C7_TwoRunsRemoveAtMostOne ==
    \A p \in Paths :
        /\ \A k \in AllRuns :
              (hist[k].mode = "n0" /\ ~PredicateHolds(hist[k], p))
              => hist[k].post.worktree[p] = hist[k].pre.worktree[p]
        /\ (Len(hist) = 2 /\ hist[1].mode = "n0" /\ hist[1].ok /\ hist[2].ok)
              => AtMostOneRemoved(hist[1].pre.worktree[p], hist[2].post.worktree[p])
        /\ (/\ Len(hist) = 2 /\ hist[1].mode = "n1" /\ hist[1].ok /\ hist[2].ok
            /\ ensure_clean_worktree_ok(hist[1].pre.commits, hist[1].pre.index,
                                        hist[1].pre.worktree))
              => AtMostOneRemoved(HeadTree(hist[1].pre.commits)[p],
                                  HeadTree(hist[2].post.commits)[p])

-----------------------------------------------------------------------------
(* --n 1 and the author filter *)

N1Runs == {k \in 1..Len(hist) : hist[k].mode = "n1"}

\* a live --n 1 run on a clean tree whose HEAD has a parent and passes the
\* author filter
LiveN1(r) ==
    /\ r.mode = "n1"
    /\ ~r.args.dry_run
    /\ ensure_clean_worktree_ok(r.pre.commits, r.pre.index, r.pre.worktree)
    /\ AuthorPasses(r.pre.commits[Len(r.pre.commits)], r.args)
    /\ Len(r.pre.commits) >= 2

\* HEAD after the run against HEAD before it, given the paths Q to repair:
\* amended when Q is not empty (another commit, same parent, author and
\* message, Q's paths with one terminator removed, the rest as it was),
\* untouched when Q is empty
HeadRepaired(r, Q) ==
    LET old == r.pre.commits
        new == r.post.commits
        L == Len(old)
    IN  IF Q = {} THEN new = old
        ELSE /\ r.ok
             /\ Len(new) = L
             /\ new[L] # old[L]
             /\ SubSeq(new, 1, L - 1) = SubSeq(old, 1, L - 1)
             /\ new[L].msg = old[L].msg
             /\ new[L].author = old[L].author
             /\ new[L].merge = old[L].merge
             /\ \A p \in Q : OneTerminatorRemoved(old[L].tree[p], new[L].tree[p])
             /\ \A p \in Paths \ Q : new[L].tree[p] = old[L].tree[p]

\* C5 as stated: the paths to repair are those HEAD modified and that
\* gained a trailing terminator relative to HEAD's first parent.
C5_Original_HeadAmended ==
    \A k \in N1Runs :
        LET r == hist[k]
            L == Len(r.pre.commits)
        IN  LiveN1(r) =>
              HeadRepaired(r, {p \in Paths :
                  GainedTerminator(r.pre.commits[L - 1].tree, r.pre.commits[L].tree, p)})

\* C5 (amended): when HEAD has exactly one parent, the paths to repair are
\* those that gained a trailing terminator with both blobs within the size
\* ceiling.
C5_HeadAmended ==
    \A k \in N1Runs :
        LET r == hist[k]
            L == Len(r.pre.commits)
        IN  (LiveN1(r) /\ ~IsMerge(r.pre.commits, L)) =>
              HeadRepaired(r, {p \in Paths :
                  /\ GainedTerminator(r.pre.commits[L - 1].tree, r.pre.commits[L].tree, p)
                  /\ WithinCeiling(r.pre.commits[L - 1].tree[p])
                  /\ WithinCeiling(r.pre.commits[L].tree[p])})

\* HEAD only added a CR LF to path f and a LF to path g: the amended commit
\* has its parent's tree
C5_Witness ==
    \E k \in N1Runs :
        LET r == hist[k]
            L == Len(r.pre.commits)
        IN  /\ LiveN1(r) /\ r.ok /\ r.amended
            /\ r.pre.commits[L].tree["f"] = Txt(<<CR, LF>>)
            /\ r.pre.commits[L - 1].tree["f"] = Txt(<<>>)
            /\ GainedTerminator(r.pre.commits[L - 1].tree, r.pre.commits[L].tree, "g")
            /\ r.post.commits[L].tree = r.post.commits[L - 1].tree
            /\ r.post.commits[L] # r.pre.commits[L]

\* the commit a run processes: HEAD, or the commit GIT_COMMIT names
Processed(r) ==
    IF r.mode = "filter_step" THEN r.pre.commits[r.commit]
    ELSE r.pre.commits[Len(r.pre.commits)]

FilterModes(r) == r.mode \in {"n1", "filter_step"}

\* C8 as stated: when the author filter excludes the commit, a --n 1 run
\* and a tree-filter run succeed and change nothing, from every state.
C8_Original_FilteredOutIsNoOp ==
    \A k \in 1..Len(hist) :
        LET r == hist[k]
        IN  (FilterModes(r) /\ ~AuthorPasses(Processed(r), r.args)) =>
              r.ok /\ r.post = r.pre /\ ~r.amended

\* C8 (amended): as stated for the tree filter and for --n 1 with
\* --in-rebase; a --n 1 run without --in-rebase first requires a clean
\* tree: it is the successful no-op from every clean state, and from a
\* state with uncommitted changes it fails and changes nothing.
C8_FilteredOutIsNoOp ==
    \A k \in 1..Len(hist) :
        LET r == hist[k]
            refused == /\ r.mode = "n1"
                       /\ ~r.args.in_rebase
                       /\ ~ensure_clean_worktree_ok(r.pre.commits, r.pre.index,
                                                    r.pre.worktree)
        IN  (FilterModes(r) /\ ~AuthorPasses(Processed(r), r.args)) =>
              /\ r.ok = ~refused
              /\ r.post = r.pre
              /\ ~r.amended

\* both filters are given and only the name matches, on a commit that
\* gained a terminator: nothing is done
C8_Witness ==
    \E k \in 1..Len(hist) :
        LET r == hist[k]
            L == Len(r.pre.commits)
        IN  /\ r.mode = "n1" /\ ~r.args.dry_run /\ r.ok
            /\ r.args.author_name.some /\ r.args.author_email.some
            /\ contains(to_lowercase(r.pre.commits[L].author.name),
                        to_lowercase(r.args.author_name.v))
            /\ ~AuthorPasses(r.pre.commits[L], r.args)
            /\ L = 2
            /\ ensure_clean_worktree_ok(r.pre.commits, r.pre.index, r.pre.worktree)
            /\ GainedTerminator(r.pre.commits[1].tree, r.pre.commits[2].tree, "f")
            /\ r.post = r.pre

-----------------------------------------------------------------------------
(* --n 0: partially staged paths, and what is written where *)

N0Runs == {k \in 1..Len(hist) : hist[k].mode = "n0"}

\* paths of the state before run r that are both unstaged and staged
PartiallyStaged(r) ==
    UnstagedSet(r.pre.index, r.pre.worktree)
        \cap StagedSet(HeadTree(r.pre.commits), r.pre.index)

\* the tree t with the paths of S as they are at HEAD
ResetToHead(t, head, S) == [p \in Paths |-> IF p \in S THEN head[p] ELSE t[p]]

\* the deleted paths git folds into a path of S as the source of its rename:
\* git lists such a rename under its destination alone
FoldedInto(head, idx, S) ==
    {pr[1] : pr \in {x \in RenamePairs(head, idx) : x[2] \in S}}

\* C9: a --n 0 run leaves the file and the index entry of every partially
\* staged path as they were, together with the deleted paths git lists under
\* it as a rename, and on the other paths it ends as the run from the state
\* where these paths have no change at all.
C9_PartiallyStagedSkipped ==
    \A k \in N0Runs :
        LET r == hist[k]
            head == HeadTree(r.pre.commits)
            S == PartiallyStaged(r)
            Q == S \cup FoldedInto(head, r.pre.index, S)
            ref == run_n0(r.pre.commits,
                          ResetToHead(r.pre.index, head, Q),
                          ResetToHead(r.pre.worktree, head, Q), r.args)
        IN  /\ \A p \in Q : /\ r.post.worktree[p] = r.pre.worktree[p]
                            /\ r.post.index[p] = r.pre.index[p]
            /\ r.ok = ref.ok
            /\ \A q \in Paths \ Q : /\ r.post.worktree[q] = ref.worktree[q]
                                    /\ r.post.index[q] = ref.index[q]
            /\ r.post.commits = r.pre.commits

\* f is partially staged and its file gained a terminator over HEAD, g is
\* only unstaged and is repaired by the same run
C9_Witness ==
    \E k \in N0Runs :
        LET r == hist[k]
            head == HeadTree(r.pre.commits)
        IN  /\ ~r.args.dry_run /\ r.ok
            /\ "f" \in PartiallyStaged(r)
            /\ head["f"] # Absent /\ r.pre.worktree["f"] # Absent
            /\ BlobAdded(head["f"], r.pre.worktree["f"])
            /\ BlobAdded(head["f"], r.pre.index["f"])
            /\ r.post.worktree["f"] = r.pre.worktree["f"]
            /\ "g" \notin PartiallyStaged(r)
            /\ OneTerminatorRemoved(r.pre.worktree["g"], r.post.worktree["g"])

\* C10: a live --n 0 run strips one terminator from the file of every path
\* that is only unstaged, lacks a trailing terminator at HEAD and has one in
\* the file, leaving its index entry as it was; for every path that is only
\* staged and gained a terminator over HEAD it strips the file and stages the
\* stripped content.
C10_QualifyingPathsRepaired ==
    \A k \in N0Runs :
        LET r == hist[k]
            head == HeadTree(r.pre.commits)
            unstaged_set == UnstagedSet(r.pre.index, r.pre.worktree)
            staged_set == StagedSet(head, r.pre.index)
        IN  ~r.args.dry_run =>
              /\ \A p \in unstaged_set \ staged_set :
                    GainedTerminator(head, r.pre.worktree, p) =>
                        /\ OneTerminatorRemoved(r.pre.worktree[p], r.post.worktree[p])
                        /\ r.post.index[p] = r.pre.index[p]
              /\ \A p \in staged_set \ unstaged_set :
                    GainedTerminator(head, r.pre.index, p) =>
                        /\ OneTerminatorRemoved(r.pre.worktree[p], r.post.worktree[p])
                        /\ r.post.index[p] = r.post.worktree[p]

-----------------------------------------------------------------------------
(* strip_one_trailing_newline on every byte sequence *)

MaxLen == 4

Bytes == {OtherByte, CR, LF}

ByteSeqs == UNION {[1..n -> Bytes] : n \in 0..MaxLen}

\* the bytes of file f are any sequence of up to MaxLen bytes
InitStrip ==
    \E B \in ByteSeqs :
        /\ commits = <<MkCommit(MkTree(Txt(<<>>), Txt(<<>>), Txt(<<>>)), Alice, FALSE, 1)>>
        /\ index = MkTree(Txt(<<>>), Txt(<<>>), Txt(<<>>))
        /\ worktree = MkTree(Txt(<<>>), Txt(B), Txt(<<>>))
        /\ rebasing = FALSE
        /\ hist = <<>>

\* one call of strip_one_trailing_newline on the bytes read from file f,
\* the Vec left by the call written back, as strip_worktree_file does
StripCall ==
    /\ Len(hist) < MaxRuns
    /\ LET input == worktree["f"].tail
           r == strip_one_trailing_newline(input)
       IN  /\ worktree' = [worktree EXCEPT !["f"] = Txt(r.bytes)]
           /\ hist' = Append(hist, [mode |-> "strip", input |-> input,
                                    output |-> r.bytes, changed |-> r.changed])
    /\ UNCHANGED <<commits, index, rebasing>>

NextStrip == StripCall

SpecStrip == InitStrip /\ [][NextStrip]_vars

StripCalls == 1..Len(hist)

\* a single call: nothing and changed=false when the last byte is not a
\* line-feed, otherwise changed=true and the last logical terminator (CR LF
\* taken as one) is what is removed
SingleCallRemovesOneTerminator ==
    \A k \in StripCalls :
        LET c == hist[k]
        IN  IF EndsWith(c.input, <<LF>>)
            THEN c.changed /\ OneTerminatorRemoved(Txt(c.input), Txt(c.output))
            ELSE ~c.changed /\ c.output = c.input

EndsInTwoLineFeeds(B) == EndsWith(B, <<LF, LF>>)

\* C11 as stated: two calls on a sequence ending in two line-feeds remove
\* exactly two bytes in total, and a single call removes at most one logical
\* terminator, reporting changed=false with the input unchanged when the
\* last byte is not a line-feed.
C11_Original_TwoCallsRemoveTwoBytes ==
    /\ SingleCallRemovesOneTerminator
    /\ (Len(hist) >= 2 /\ EndsInTwoLineFeeds(hist[1].input))
          => Len(hist[1].input) - Len(hist[2].output) = 2

\* C11 (amended): two calls on a sequence ending in two line-feeds remove
\* two logical terminators, one per call: two bytes in total, and three
\* when the two line-feeds follow a carriage-return (the second call then
\* removes the CR LF pair); the single-call part as stated.
C11_TwoCallsRemoveTwoTerminators ==
    /\ SingleCallRemovesOneTerminator
    /\ (Len(hist) >= 2 /\ EndsInTwoLineFeeds(hist[1].input))
          => /\ hist[1].changed /\ hist[2].changed
             /\ Len(hist[1].input) - Len(hist[1].output) = 1
             /\ Len(hist[1].input) - Len(hist[2].output) =
                   IF EndsWith(hist[1].input, <<CR, LF, LF>>) THEN 3 ELSE 2

\* two calls on a byte, CR LF and a second LF: the second call removes two
C11_Witness ==
    /\ Len(hist) >= 2
    /\ hist[1].input = <<OtherByte, CR, LF, LF>>
    /\ hist[2].input = <<OtherByte, CR, LF>>
    /\ hist[2].output = <<OtherByte>>

-----------------------------------------------------------------------------
(* Precondition failures *)

\* commit i of the state before run r is one the run has to process (it
\* passes the author filter) and is a root or a merge commit
Unsupported(r, i) ==
    /\ AuthorPasses(r.pre.commits[i], r.args)
    /\ IsRoot(r.pre.commits, i) \/ IsMerge(r.pre.commits, i)

Dirty(r) == ~ensure_clean_worktree_ok(r.pre.commits, r.pre.index, r.pre.worktree)

\* run r meets one of the precondition failures: a tree that is not clean
\* where a clean one is required, a rewrite session in progress, --in-rebase
\* with --n 0 or --n >1, a root or merge commit to process
PreconditionFails(r) ==
    \/ r.mode = "n1" /\ ~r.args.in_rebase /\ Dirty(r)
    \/ r.mode = "n_gt1" /\ (Dirty(r) \/ rebasing)
    \/ r.mode = "rejected"
    \/ r.mode = "n1" /\ Unsupported(r, Len(r.pre.commits))
    \/ r.mode = "n_gt1" /\ \E i \in Collected(r) : Unsupported(r, i)
    \/ r.mode = "filter_step" /\ r.args.n = 1 /\ Unsupported(r, r.commit)

\* C12: a run that meets a precondition failure ends with a failure and
\* leaves the working tree, the index, HEAD and all commits as they were.
C12_PreconditionFailureAborts ==
    \A k \in AllRuns :
        PreconditionFails(hist[k]) => ~hist[k].ok /\ hist[k].post = hist[k].pre

-----------------------------------------------------------------------------
(* Paths that cannot be evaluated *)

\* one side of the comparison cannot be resolved, or is above the ceiling
Unevaluable(old, new) ==
    \/ old = Absent
    \/ new = Absent
    \/ ~WithinCeiling(old)
    \/ ~WithinCeiling(new)

\* the old side of run r (HEAD, or the first parent of the processed
\* commit; Absent everywhere for a root) and the new side of path p
OldSide(r) ==
    LET cs == r.pre.commits
        i == IF r.mode = "filter_step" THEN r.commit ELSE Len(cs)
    IN  IF r.mode = "n0" THEN HeadTree(cs)
        ELSE IF i = 1 THEN [p \in Paths |-> Absent]
        ELSE cs[i - 1].tree

NewSide(r, p) ==
    CASE r.mode = "n0" ->
            IF p \in UnstagedSet(r.pre.index, r.pre.worktree)
            THEN r.pre.worktree[p] ELSE r.pre.index[p]
      [] r.mode = "filter_step" -> r.pre.worktree[p]
      [] OTHER -> HeadTree(r.pre.commits)[p]

PathModes(r) ==
    \/ r.mode = "n0"
    \/ r.mode = "n1"
    \/ r.mode = "filter_step" /\ r.args.n = 1

\* C13: a path with an unresolvable or oversized side is never repaired
\* (its file, its index entry and its content at HEAD stay as they were),
\* no run fails because of it (a --n 0 run has no other way to fail, the
\* other modes fail on their preconditions only), and the remaining paths
\* of a --n 0 run are still repaired.
C13_UnevaluablePathSkipped ==
    \A k \in AllRuns :
        LET r == hist[k]
            head == HeadTree(r.pre.commits)
        IN  PathModes(r) =>
              /\ \A p \in Paths :
                    Unevaluable(OldSide(r)[p], NewSide(r, p)) =>
                        /\ r.post.worktree[p] = r.pre.worktree[p]
                        /\ r.post.index[p] = r.pre.index[p]
                        /\ HeadTree(r.post.commits)[p] = head[p]
              /\ r.mode = "n0" => r.ok
              /\ (r.mode # "n0" /\ ~r.ok) => PreconditionFails(r)
              /\ (r.mode = "n0" /\ ~r.args.dry_run) =>
                    \A q \in Paths \ PartiallyStaged(r) :
                        (/\ GainedTerminator(head, [x \in Paths |-> NewSide(r, x)], q)
                         /\ ~Unevaluable(head[q], NewSide(r, q)))
                        => OneTerminatorRemoved(r.pre.worktree[q], r.post.worktree[q])

-----------------------------------------------------------------------------
(* The commit sequence after a range run *)

\* no commit of the lineage before run r is a merge
Linear(r) == \A i \in 1..Len(r.pre.commits) : ~IsMerge(r.pre.commits, i)

\* commit i is one the scan flags: it passes the author filter of run r, has
\* exactly one parent, and one of its paths gained a terminator over that
\* parent with both blobs within the ceiling
Offends(r, i) ==
    /\ AuthorPasses(r.pre.commits[i], r.args)
    /\ ~IsRoot(r.pre.commits, i)
    /\ ~IsMerge(r.pre.commits, i)
    /\ \E p \in Paths :
          /\ GainedTerminator(r.pre.commits[i - 1].tree, r.pre.commits[i].tree, p)
          /\ WithinCeiling(r.pre.commits[i - 1].tree[p])
          /\ WithinCeiling(r.pre.commits[i].tree[p])

\* the counterpart of every commit of (base, HEAD] has its author and
\* message, and its tree when the commit does not offend
CounterpartsKeep(r) ==
    \A i \in (r.base + 1)..Len(r.pre.commits) :
        /\ Counterpart(r, i).author = r.pre.commits[i].author
        /\ ~Offends(r, i) => Counterpart(r, i).tree = r.pre.commits[i].tree

\* C14: after a live range run on a linear history every commit of
\* (base, HEAD] has a counterpart of its own, in the same order, with the
\* same author and message (a commit left empty by the repair included), no
\* commit is dropped, and a commit that does not offend keeps its tree.
C14_CommitSequencePreserved ==
    \A k \in RangeRuns :
        LET r == hist[k]
        IN  (Rewritten(r) /\ Linear(r)) =>
              /\ Len(r.post.commits) = Len(r.pre.commits)
              /\ \A i \in (r.base + 1)..Len(r.pre.commits) :
                    /\ r.map[i] = i
                    /\ Counterpart(r, i).msg = r.pre.commits[i].msg
              /\ CounterpartsKeep(r)

-----------------------------------------------------------------------------
(* The rewritten range against its rewritten parents *)

\* a live range run without author filter that succeeded on a linear history
PlainRewrite(r) ==
    /\ Rewritten(r)
    /\ Linear(r)
    /\ ~r.args.author_name.some
    /\ ~r.args.author_email.some

\* the tree filter repairs path p of commit i: the commit added a terminator
\* over its own first parent, whose blob is within the ceiling
StepRepairs(r, i, p) ==
    /\ GainedTerminator(r.pre.commits[i - 1].tree, r.pre.commits[i].tree, p)
    /\ WithinCeiling(r.pre.commits[i - 1].tree[p])

\* C15 as stated: after such a run no commit of (base, HEAD] has a path
\* ending in a line-feed that its rewritten first parent has without one.
C15_Original_RewriteIsFixedPoint ==
    \A k \in RangeRuns :
        LET r == hist[k]
        IN  PlainRewrite(r) =>
              \A i \in (r.base + 1)..Len(r.pre.commits) : \A p \in Paths :
                  ~GainedTerminator(Counterpart(r, i - 1).tree, Counterpart(r, i).tree, p)

\* C15 (amended): every commit of (base, HEAD] is rewritten from its own
\* tree against its own first parent: a path that gained a terminator there
\* loses exactly one, every other path keeps its content; so a rewritten
\* commit still ends a path in a line-feed over its rewritten parent only
\* where its own parent already ended in one, where its content ended in
\* several terminators, or where the parent blob is above the ceiling.
C15_RewriteJudgesOriginalParent ==
    \A k \in RangeRuns :
        LET r == hist[k]
        IN  PlainRewrite(r) =>
              \A i \in (r.base + 1)..Len(r.pre.commits) : \A p \in Paths :
                  /\ IF StepRepairs(r, i, p)
                     THEN OneTerminatorRemoved(r.pre.commits[i].tree[p],
                                               Counterpart(r, i).tree[p])
                     ELSE Counterpart(r, i).tree[p] = r.pre.commits[i].tree[p]
                  /\ GainedTerminator(Counterpart(r, i - 1).tree,
                                      Counterpart(r, i).tree, p)
                     => \/ LastByteIsLF(r.pre.commits[i - 1].tree[p])
                        \/ LastByteIsLF(BlobStrip(r.pre.commits[i].tree[p]))
                        \/ ~WithinCeiling(r.pre.commits[i - 1].tree[p])

\* commit 2 added a line-feed to f and is repaired, commit 3 changed f and
\* kept the line-feed: its counterpart ends in one over a parent without
C15_Witness ==
    \E k \in RangeRuns :
        LET r == hist[k]
        IN  /\ PlainRewrite(r)
            /\ Len(r.pre.commits) = 3 /\ r.base = 1
            /\ StepRepairs(r, 2, "f")
            /\ LastByteIsLF(r.pre.commits[2].tree["f"])
            /\ r.pre.commits[3].tree["f"] # r.pre.commits[2].tree["f"]
            /\ ~LastByteIsLF(Counterpart(r, 2).tree["f"])
            /\ Counterpart(r, 3).tree["f"] = r.pre.commits[3].tree["f"]
            /\ GainedTerminator(Counterpart(r, 2).tree, Counterpart(r, 3).tree, "f")

====
